---- MODULE Spec2Model ----
(***************************************************************************)
(* The query pipeline of the RAG FAQ service: QueryEngine.query and the    *)
(* stages it sequences (retrieve_documents, generate_answer, the confidence*)
(* computation and the QueryResponse assembly), src/app/rag/query_engine.py*)
(*                                                                         *)
(* Numbers.  Distances and similarities are held as integers in units of   *)
(* 1/Scale = 0.0002; similarity scores and confidences, which the code     *)
(* rounds to 3 decimals, are held as integers in units of 1/Milli = 0.001. *)
(* On this grid round(x, 3) never meets a tie, and the double-precision    *)
(* results of 1 - distance, of the threshold comparison and of round agree *)
(* with the integer arithmetic below.  The mean of two scores can be an    *)
(* exact decimal tie (0.6005); there the double-precision quotient decides *)
(* the direction, so the model admits both neighbours.                     *)
(*                                                                         *)
(* Text.  A text is a sequence of tokens: an f-string is the sequence of   *)
(* its literal parts and of the settings it interpolates.                  *)
(***************************************************************************)
EXTENDS Integers, Sequences, FiniteSets

VARIABLES
    llm_provider,   \* QueryEngine.llm_provider, fixed at construction
    threshold,      \* settings.SIMILARITY_THRESHOLD, in 1/Scale
    pc,             \* position of the request inside QueryEngine.query
    question,       \* the argument of query
    embedStatus,    \* what encode_single did in this request
    indexStatus,    \* what VectorStore.query did in this request
    results,        \* the matches VectorStore.query returned
    source_docs,    \* the local source_docs of query
    genKind,        \* what the provider call did in this request
    genCalls,       \* provider calls made in this request
    answer,         \* the local answer of query
    response        \* the QueryResponse returned to the caller

\* The process that serves the API: main.py, app/api/routes.py and the module
\* singletons.
VARIABLES
    proc,           \* "booting", "serving", or "refused" when the import failed
    config,         \* the environment: LLM_PROVIDER and the provider's API key
    singleton,      \* the globals embedding_model, vector_store, query_engine
    built,          \* instances constructed so far, per class
    health          \* the outcome of the last /health request

svcVars == <<proc, config, singleton, built, health>>

\* The collection on disk and the VectorStore objects of the ingestion script
\* and of the API process.
VARIABLES
    database,       \* the collection COLLECTION_NAME in the persistent client
    created,        \* collections created so far
    handle,         \* VectorStore.collection of each process
    ingest_pc,      \* position of setup_vector_database
    api_pc,         \* position of the API process's get_vector_store
    runs,           \* runs of the ingestion script so far
    observed        \* what the API process's last index call met

storeVars == <<database, created, handle, ingest_pc, api_pc, runs, observed>>

outerVars == <<svcVars, storeVars>>

vars == <<llm_provider, threshold, pc, question, embedStatus, indexStatus,
          results, source_docs, genKind, genCalls, answer, response,
          svcVars, storeVars>>

queryVars == <<llm_provider, threshold, pc, question, embedStatus, indexStatus,
               results, source_docs, genKind, genCalls, answer, response>>

----------------------------------------------------------------------------
(* Units *)

Milli == 10 * 10 * 10          \* round(_, 3): three decimals
Scale == 5 * Milli             \* grid of distances: 0.0002

----------------------------------------------------------------------------
(* Settings *)

TOP_K_RESULTS == 3
SIMILARITY_THRESHOLD == 3000   \* 0.6 in 1/Scale
CLINIC_PHONE == "+1-555-123-4567"

Providers == {"anthropic", "openai", "ollama"}

\* SIMILARITY_THRESHOLD is an unvalidated float read from the environment:
\* the default 0.6, 0.0 and -0.5.
Thresholds == {SIMILARITY_THRESHOLD, 0, 0 - (Scale \div 2)}

----------------------------------------------------------------------------
(* Inputs *)

Questions == {"", "What are your office hours?"}

\* Distances VectorStore.query may report, in 1/Scale:
\* -0.001, 0.0, 0.2, 0.201, 0.3998, 0.4002, 0.6 and 1.3.  A collection that
\* get_collection loads keeps the metric it was created with: a cosine
\* distance lies in [0, 2], an inner-product distance is negative when the
\* dot product exceeds 1.
Distances == {0 - 5, 0, 1000, 1005, 1999, 2001, 3000, 6500}

\* A stored chunk comes back with its metadata mapping, or with None when it
\* was stored without one.
Metadatas == {"mapping", "None"}

\* The text of the match of each rank.
Corpus == <<"Office Hours: 9am-5pm Mon-Fri", "Insurance: Blue Cross accepted",
            "Parking: free lot behind the clinic">>

Matches == [content : {Corpus[i] : i \in 1..Len(Corpus)},
            distance : Distances, metadata : Metadatas]

\* What collection.query returns for n_results = TOP_K_RESULTS: at most that
\* many matches, closest first.
IndexResults ==
    UNION {{r \in [1..n -> Matches] :
              /\ \A i \in 1..n : r[i].content = Corpus[i]
              /\ \A i \in 1..(n - 1) : r[i].distance <= r[i + 1].distance} :
           n \in 0..TOP_K_RESULTS}

Whitespace == {" ", "\n"}

\* Texts a provider may generate.
Replies == {<<"We are open 9am-5pm, Monday to Friday.">>,
            <<" ", "We are open 9am-5pm, Monday to Friday.", "\n">>,
            <<"\n">>}

\* What a provider call may do: reply, or fail in one of these ways.
FailureKinds == {"network", "timeout", "badstatus", "malformed", "nofield"}
GenKinds == {"ok"} \cup FailureKinds

Unset == "unset"
NoResponse == [returned |-> FALSE]

----------------------------------------------------------------------------
(* Outcomes: an operation returns a value or raises *)

Returned(v) == [raised |-> FALSE, value |-> v]
Raised == [raised |-> TRUE, value |-> <<>>]

----------------------------------------------------------------------------
(* Retrieval: QueryEngine.retrieve_documents *)

\* similarity = 1 - distance
Similarity(distance) == Scale - distance

\* round(similarity, 3): from 1/Scale to the nearest 1/Milli
Round3(x) == (2 * x + 5) \div 10

\* if similarity >= settings.SIMILARITY_THRESHOLD
FilterOnRounded(similarity, thr) == Round3(similarity) * (Scale \div Milli) >= thr
PassesThreshold(similarity, thr) == similarity >= thr

\* The validation SourceDocument(...) runs: metadata: dict, and
\* similarity_score: float with ge=0.0, le=1.0.
Unvalidated(metadata, score) == TRUE
ValidSourceDocument(metadata, score) ==
    /\ metadata = "mapping"
    /\ 0 <= score
    /\ score <= Milli

SourceDocument(content, metadata, score) ==
    [content |-> content, metadata |-> metadata, similarity_score |-> score]

\* source_docs.append(...)
Prepend(acc, doc) == <<doc>> \o acc
Accept(acc, doc) == Append(acc, doc)

\* The loop over results['documents'][0] from match i on, acc being the
\* source_docs built so far: it returns the list, or raises at the first match
\* whose SourceDocument is refused.
RECURSIVE ParseResultsSkipRefused(_, _, _, _)
ParseResultsSkipRefused(res, i, acc, thr) ==
    IF i > Len(res)
    THEN Returned(acc)
    ELSE LET similarity == Similarity(res[i].distance)
             score == Round3(similarity)
         IN  IF /\ PassesThreshold(similarity, thr)
                /\ ValidSourceDocument(res[i].metadata, score)
             THEN ParseResultsSkipRefused(res, i + 1,
                      Accept(acc, SourceDocument(res[i].content,
                                                 res[i].metadata, score)),
                      thr)
             ELSE ParseResultsSkipRefused(res, i + 1, acc, thr)

RECURSIVE ParseResults(_, _, _, _)
ParseResults(res, i, acc, thr) ==
    IF i > Len(res)
    THEN Returned(acc)
    ELSE LET similarity == Similarity(res[i].distance)
             score == Round3(similarity)
         IN  IF PassesThreshold(similarity, thr)
             THEN IF ValidSourceDocument(res[i].metadata, score)
                  THEN ParseResults(res, i + 1,
                           Accept(acc, SourceDocument(res[i].content,
                                                      res[i].metadata, score)),
                           thr)
                  ELSE Raised
             ELSE ParseResults(res, i + 1, acc, thr)

\* except Exception as e: ... return []
RetrieveReraise(outcome) == outcome
RetrieveExcept(outcome) == Returned(<<>>)

\* try: ... except Exception around the whole body of retrieve_documents
RetrieveTry(outcome) ==
    IF outcome.raised THEN RetrieveExcept(outcome) ELSE outcome

----------------------------------------------------------------------------
(* Generation: QueryEngine.generate_answer and the provider calls *)

NoContextMessage ==
    <<"I don't have enough information to answer that question. Please contact our clinic directly at ",
      CLINIC_PHONE, " for assistance.">>

ApologyMessage ==
    <<"I apologize, but I'm having trouble generating a response right now. Please call us at ",
      CLINIC_PHONE, " for assistance.">>

\* str.strip(): leading and trailing whitespace removed
RECURSIVE LStrip(_)
LStrip(t) ==
    IF t # <<>> /\ Head(t) \in Whitespace THEN LStrip(Tail(t)) ELSE t

RECURSIVE RStrip(_)
RStrip(t) ==
    IF t # <<>> /\ t[Len(t)] \in Whitespace
    THEN RStrip(SubSeq(t, 1, Len(t) - 1))
    ELSE t

Strip(t) == RStrip(LStrip(t))

\* messages.create(...) raises on a network error, a timeout and an error
\* status; response.content[0].text raises when the reply has no text block.
generate_anthropic(kind, reply) ==
    IF kind = "ok" THEN Returned(reply) ELSE Raised

\* ChatCompletion.create(...) likewise; response.choices[0].message.content
generate_openai(kind, reply) ==
    IF kind = "ok" THEN Returned(reply) ELSE Raised

\* requests.post(..., timeout=60): status 200 gives
\* result.get('response', 'No response generated'); any other status, a
\* timeout, a connection error and a body that is not JSON raise.
generate_ollama(kind, reply) ==
    CASE kind = "ok" -> Returned(reply)
      [] kind = "nofield" -> Returned(<<"No response generated">>)
      [] OTHER -> Raised

\* The branch on self.llm_provider inside the try of generate_answer.
ProviderCall(provider, kind, reply) ==
    CASE provider = "anthropic" -> generate_anthropic(kind, reply)
      [] provider = "openai" -> generate_openai(kind, reply)
      [] provider = "ollama" -> generate_ollama(kind, reply)
      [] OTHER -> Returned(<<"Error: Unknown LLM provider">>)

\* except Exception as e: ... return the apology
GenerateReraise(outcome) == outcome
GenerateExcept(outcome) == Returned(ApologyMessage)

\* try: answer = <provider call>; return answer.strip()  except Exception
GenerateTry(outcome) ==
    IF outcome.raised
    THEN GenerateExcept(outcome)
    ELSE Returned(Strip(outcome.value))

\* if not context_docs: return the fixed message; the provider is called
\* only past this test.
AlwaysGenerate(context_docs) == TRUE
HasContext(context_docs) == context_docs # <<>>

----------------------------------------------------------------------------
(* Confidence and response assembly: QueryEngine.query *)

RECURSIVE SumScores(_)
SumScores(docs) ==
    IF docs = <<>> THEN 0
    ELSE Head(docs).similarity_score + SumScores(Tail(docs))

\* round(total / n, 3) for total in 1/Milli: the nearest 1/Milli; at an exact
\* tie (n even) either neighbour.
RoundMean(total, n) ==
    LET up == (2 * total + n) \div (2 * n)
    IN  IF (2 * total + n) % (2 * n) = 0 THEN {up - 1, up} ELSE {up}

\* sum(doc.similarity_score ...) / len(source_docs) if source_docs else 0.0,
\* then round(confidence, 3)
TruncatedMean(docs) ==
    IF docs = <<>> THEN {0} ELSE {SumScores(docs) \div Len(docs)}
Confidence(docs) ==
    IF docs = <<>> THEN {0} ELSE RoundMean(SumScores(docs), Len(docs))

\* QueryResponse validates confidence: float with ge=0.0, le=1.0.
ValidQueryResponse(confidence) == 0 <= confidence /\ confidence <= Milli

QueryResponse(ans, sources, confidence, q) ==
    [returned |-> TRUE, answer |-> ans, sources |-> sources,
     confidence |-> confidence, question |-> q]

----------------------------------------------------------------------------
(* Startup and singletons: config/settings.py, get_embedding_model,       *)
(* get_vector_store, get_query_engine, QueryEngine.__init__               *)

None == 0

\* LLM_PROVIDER as the environment may set it, and the API key of the chosen
\* provider (ANTHROPIC_API_KEY / OPENAI_API_KEY, default "").
ProviderSettings == Providers \cup {"gemini"}
ApiKeys == {"", "sk-live"}
Configs == [provider : ProviderSettings, key : ApiKeys]

\* settings = Settings(): LLM_PROVIDER: Literal["anthropic", "openai",
\* "ollama"] is the one validated field; the keys are plain str = "".
SettingsAcceptAny(cfg) == TRUE
SettingsValid(cfg) == cfg.provider \in Providers

Classes == {"embedding_model", "vector_store", "query_engine"}
NoInstances == [c \in Classes |-> None]
NoneBuilt == [c \in Classes |-> 0]

\* A step of construction: it raised or not, and the globals and the count of
\* instances after it.
Construction(raised, s, b) == [raised |-> raised, singleton |-> s, built |-> b]

\* if <global> is None
AlwaysConstruct(instance) == TRUE
IsNone(instance) == instance = None

\* get_embedding_model / get_vector_store: the global is constructed when it
\* is None, which succeeds (ok) or raises, and is returned.
GetSingleton(s, b, class, ok) ==
    IF IsNone(s[class])
    THEN IF ok
         THEN Construction(FALSE, [s EXCEPT ![class] = b[class] + 1],
                                  [b EXCEPT ![class] = b[class] + 1])
         ELSE Construction(TRUE, s, b)
    ELSE Construction(FALSE, s, b)

\* What the provider branch of QueryEngine.__init__ meets.  anthropic and
\* openai: the import and the client are fine ("ok") or raise ("error").
\* ollama: GET /api/tags answers 200 with a list of named models ("ok"), the
\* request raises a RequestException ("unreachable"), the status is not 200
\* ("badstatus"), or the 200 body has another shape, such as
\* {"models": [{}]} or {"models": null} ("malformed").
ClientOutcomes(provider) ==
    IF provider = "ollama"
    THEN {"ok", "unreachable", "badstatus", "malformed"}
    ELSE {"ok", "error"}

\* The provider branch of QueryEngine.__init__: the anthropic and openai
\* branches re-raise an import or client error and take the key as it is; the
\* ollama branch only warns on a RequestException or a status other than 200,
\* and the KeyError / TypeError of m['name'] for m in models is not caught;
\* any other provider raises ValueError.
ClientInit(cfg, client) ==
    CASE cfg.provider \in {"anthropic", "openai"} ->
             IF client = "error" THEN Raised ELSE Returned(cfg.provider)
      [] cfg.provider = "ollama" ->
             IF client = "malformed" THEN Raised ELSE Returned(cfg.provider)
      [] OTHER -> Raised

\* get_query_engine: QueryEngine() when the global is None; __init__ gets the
\* two other singletons, then initialises the client.
GetQueryEngine(s, b, cfg, embOk, vsOk, client) ==
    IF IsNone(s["query_engine"])
    THEN LET e == GetSingleton(s, b, "embedding_model", embOk)
             v == GetSingleton(e.singleton, e.built, "vector_store", vsOk)
         IN  IF e.raised THEN e
             ELSE IF v.raised THEN v
             ELSE IF ClientInit(cfg, client).raised
                  THEN Construction(TRUE, v.singleton, v.built)
                  ELSE Construction(FALSE,
                           [v.singleton EXCEPT
                               !["query_engine"] = v.built["query_engine"] + 1],
                           [v.built EXCEPT
                               !["query_engine"] = v.built["query_engine"] + 1])
    ELSE Construction(FALSE, s, b)

\* QueryRequest: question: str with min_length=1
ValidQueryRequest(q) == q # ""

NoHealth == [called |-> FALSE]

\* except Exception as e: ... return HealthResponse(status="unhealthy", ...)
HealthReraise(outcome) == outcome
HealthExcept(outcome) == Returned("unhealthy")

\* health_check: try: get_vector_store().get_count(); status "healthy"
HealthTry(outcome) ==
    IF outcome.raised THEN HealthExcept(outcome) ELSE Returned("healthy")

\* The process once it serves, its engine constructed.
ServiceConstructed ==
    /\ proc = "serving"
    /\ config = [provider |-> llm_provider, key |-> "sk-live"]
    /\ singleton = [c \in Classes |-> 1]
    /\ built = [c \in Classes |-> 1]
    /\ health = NoHealth

----------------------------------------------------------------------------
(* The collection: VectorStore and chromadb's persistent client *)

Processes == {"ingest", "api"}

\* No collection of the name.
Absent == [uid |-> 0, count |-> 0]

NoObservation == [made |-> FALSE]

\* The collection is there and holds the corpus, the API process has it open,
\* the ingestion script is not running.  Spec and ServiceSpec keep the
\* collection in this state; StoreSpec moves it and keeps the pipeline idle.
StoreQuiet ==
    /\ database = [uid |-> 1, count |-> Len(Corpus)]
    /\ created = 1
    /\ handle = [p \in Processes |-> IF p = "api" THEN 1 ELSE None]
    /\ ingest_pc = "idle"
    /\ api_pc = "open"
    /\ runs = 0
    /\ observed = NoObservation

----------------------------------------------------------------------------
(* The request: QueryEngine.query, one step per stage *)

Init ==
    /\ llm_provider \in Providers
    /\ threshold \in Thresholds
    /\ pc = "idle"
    /\ question = Unset
    /\ embedStatus = Unset
    /\ indexStatus = Unset
    /\ results = <<>>
    /\ source_docs = <<>>
    /\ genKind = Unset
    /\ genCalls = 0
    /\ answer = <<>>
    /\ response = NoResponse
    /\ ServiceConstructed
    /\ StoreQuiet

\* query(question) is called; the previous request, if any, is over.
Ask(q) ==
    /\ pc \in {"idle", "Completed", "Raised"}
    /\ pc' = "Received"
    /\ question' = q
    /\ embedStatus' = Unset
    /\ indexStatus' = Unset
    /\ results' = <<>>
    /\ source_docs' = <<>>
    /\ genKind' = Unset
    /\ genCalls' = 0
    /\ answer' = <<>>
    /\ response' = NoResponse
    /\ UNCHANGED <<llm_provider, threshold>>
    /\ UNCHANGED outerVars

\* What retrieve_documents hands back to query: its try/except applied to the
\* outcome of its body.
RetrieveReturn(outcome) ==
    LET r == RetrieveTry(outcome)
    IN  IF r.raised
        THEN /\ pc' = "Raised"
             /\ UNCHANGED source_docs
        ELSE /\ pc' = "Retrieved"
             /\ source_docs' = r.value

\* embedding_model.encode_single(question) returns the query vector.
EmbedOk ==
    /\ pc = "Received"
    /\ embedStatus' = "ok"
    /\ pc' = "Embedded"
    /\ UNCHANGED <<llm_provider, threshold, question, indexStatus, results,
                   source_docs, genKind, genCalls, answer, response>>
    /\ UNCHANGED outerVars

\* EmbeddingModel.encode logs and re-raises; the raise lands in the except
\* of retrieve_documents.
EmbedFail ==
    /\ pc = "Received"
    /\ embedStatus' = "raise"
    /\ RetrieveReturn(Raised)
    /\ UNCHANGED <<llm_provider, threshold, question, indexStatus, results,
                   genKind, genCalls, answer, response>>
    /\ UNCHANGED outerVars

\* vector_store.query returns the matches r and the loop parses them.
IndexOk(r) ==
    /\ pc = "Embedded"
    /\ indexStatus' = "ok"
    /\ results' = r
    /\ RetrieveReturn(ParseResults(r, 1, <<>>, threshold))
    /\ UNCHANGED <<llm_provider, threshold, question, embedStatus, genKind,
                   genCalls, answer, response>>
    /\ UNCHANGED outerVars

\* VectorStore.query logs and re-raises; the raise lands in the except of
\* retrieve_documents.
IndexFail ==
    /\ pc = "Embedded"
    /\ indexStatus' = "raise"
    /\ RetrieveReturn(Raised)
    /\ UNCHANGED <<llm_provider, threshold, question, embedStatus, results,
                   genKind, genCalls, answer, response>>
    /\ UNCHANGED outerVars

\* generate_answer with no context: the fixed message, no provider call.
NoContext ==
    /\ pc = "Retrieved"
    /\ ~HasContext(source_docs)
    /\ answer' = NoContextMessage
    /\ pc' = "NoContext"
    /\ UNCHANGED <<llm_provider, threshold, question, embedStatus, indexStatus,
                   results, source_docs, genKind, genCalls, response>>
    /\ UNCHANGED outerVars

\* generate_answer with context: the prompt is built and the try is entered.
StartGenerating ==
    /\ pc = "Retrieved"
    /\ HasContext(source_docs)
    /\ pc' = "Generating"
    /\ UNCHANGED <<llm_provider, threshold, question, embedStatus, indexStatus,
                   results, source_docs, genKind, genCalls, answer, response>>
    /\ UNCHANGED outerVars

\* The provider call and what generate_answer makes of it.
Generate(kind, reply) ==
    /\ pc = "Generating"
    /\ genKind' = kind
    /\ genCalls' = genCalls + 1
    /\ LET r == GenerateTry(ProviderCall(llm_provider, kind, reply))
       IN  IF r.raised
           THEN /\ pc' = "Raised"
                /\ UNCHANGED answer
           ELSE /\ pc' = "Generated"
                /\ answer' = r.value
    /\ UNCHANGED <<llm_provider, threshold, question, embedStatus, indexStatus,
                   results, source_docs, response>>
    /\ UNCHANGED outerVars

\* The confidence is computed and the QueryResponse is built and returned.
Complete ==
    /\ pc \in {"NoContext", "Generated"}
    /\ \E confidence \in Confidence(source_docs) :
          IF ValidQueryResponse(confidence)
          THEN /\ response' = QueryResponse(answer, source_docs, confidence,
                                            question)
               /\ pc' = "Completed"
          ELSE /\ pc' = "Raised"
               /\ UNCHANGED response
    /\ UNCHANGED <<llm_provider, threshold, question, embedStatus, indexStatus,
                   results, source_docs, genKind, genCalls, answer>>
    /\ UNCHANGED outerVars

Next ==
    \/ \E q \in Questions : Ask(q)
    \/ EmbedOk
    \/ EmbedFail
    \/ \E r \in IndexResults : IndexOk(r)
    \/ IndexFail
    \/ NoContext
    \/ StartGenerating
    \/ \E kind \in GenKinds, reply \in Replies : Generate(kind, reply)
    \/ Complete

Spec == Init /\ [][Next]_vars

----------------------------------------------------------------------------
(* The API process: import of the settings, POST /ask, GET /health *)

\* No request is in the handler.
Quiescent == {"idle", "Completed", "Raised", "Error500"}

\* The matches the index returns in the runs of the API process: none, one at
\* similarity 0.8, one at similarity 0.4.
ServiceResults ==
    {r \in IndexResults :
        /\ Len(r) <= 1
        /\ \A i \in DOMAIN r :
              r[i].metadata = "mapping" /\ r[i].distance \in {1000, 3000}}

\* The chosen provider needs an API key and the environment gives none.
CredentialsMissing(cfg) ==
    cfg.provider \in {"anthropic", "openai"} /\ cfg.key = ""

ServiceInit ==
    /\ proc = "booting"
    /\ config \in Configs
    /\ singleton = NoInstances
    /\ built = NoneBuilt
    /\ health = NoHealth
    /\ llm_provider = Unset
    /\ threshold = SIMILARITY_THRESHOLD
    /\ pc = "idle"
    /\ question = Unset
    /\ embedStatus = Unset
    /\ indexStatus = Unset
    /\ results = <<>>
    /\ source_docs = <<>>
    /\ genKind = Unset
    /\ genCalls = 0
    /\ answer = <<>>
    /\ response = NoResponse
    /\ StoreQuiet

\* main.py imports config.settings, whose settings = Settings() validates the
\* environment: the process serves, or the import raises and it never does.
\* The startup event only logs.
LoadSettings ==
    /\ proc = "booting"
    /\ proc' = IF SettingsValid(config) THEN "serving" ELSE "refused"
    /\ UNCHANGED <<config, singleton, built, health, queryVars, storeVars>>

\* POST /ask with a valid QueryRequest enters ask_question.
Route(q) ==
    /\ proc = "serving"
    /\ pc \in Quiescent
    /\ ValidQueryRequest(q)
    /\ pc' = "Routing"
    /\ question' = q
    /\ embedStatus' = Unset
    /\ indexStatus' = Unset
    /\ results' = <<>>
    /\ source_docs' = <<>>
    /\ genKind' = Unset
    /\ genCalls' = 0
    /\ answer' = <<>>
    /\ response' = NoResponse
    /\ UNCHANGED <<llm_provider, threshold, svcVars, storeVars>>

\* query_engine = get_query_engine() inside ask_question: the engine is
\* there or is constructed now, and query is entered; a construction that
\* raises ends the request with HTTP 500.
GetEngine(embOk, vsOk, client) ==
    /\ pc = "Routing"
    /\ client \in ClientOutcomes(config.provider)
    /\ LET c == GetQueryEngine(singleton, built, config, embOk, vsOk, client)
       IN  /\ singleton' = c.singleton
           /\ built' = c.built
           /\ IF c.raised
              THEN /\ pc' = "Error500"
                   /\ UNCHANGED llm_provider
              ELSE /\ pc' = "Received"
                   /\ llm_provider' = config.provider
    /\ UNCHANGED <<proc, config, health, threshold, question, embedStatus,
                   indexStatus, results, source_docs, genKind, genCalls,
                   answer, response, storeVars>>

\* GET /health: get_vector_store().get_count() inside the try of
\* health_check.
HealthCheck(vsOk, countOk) ==
    /\ proc = "serving"
    /\ pc \in Quiescent
    /\ LET g == GetSingleton(singleton, built, "vector_store", vsOk)
           counted == ~g.raised /\ countOk
           r == HealthTry(IF counted THEN Returned(Len(Corpus)) ELSE Raised)
       IN  /\ singleton' = g.singleton
           /\ built' = g.built
           /\ health' = [called |-> TRUE, raised |-> r.raised,
                         status |-> r.value, counted |-> counted]
    /\ UNCHANGED <<proc, config, queryVars, storeVars>>

ServiceNext ==
    \/ LoadSettings
    \/ \E q \in Questions : Route(q)
    \/ \E embOk \in BOOLEAN, vsOk \in BOOLEAN,
          client \in ClientOutcomes(config.provider) :
          GetEngine(embOk, vsOk, client)
    \/ \E vsOk \in BOOLEAN, countOk \in BOOLEAN : HealthCheck(vsOk, countOk)
    \/ EmbedOk
    \/ EmbedFail
    \/ \E r \in ServiceResults : IndexOk(r)
    \/ IndexFail
    \/ NoContext
    \/ StartGenerating
    \/ \E kind \in GenKinds, reply \in Replies : Generate(kind, reply)
    \/ Complete

ServiceSpec == ServiceInit /\ [][ServiceNext]_vars

----------------------------------------------------------------------------
(* The ingestion script beside the API process: scripts/setup_vectordb.py *)
(* and VectorStore, both processes on the same persistent collection      *)

MaxRuns == 2

\* Chunks one run of the script adds.
ChunkCounts == {1, 2}

\* client.get_collection(name=...): the handle of the collection when it is
\* there and the call goes through (ok), a raise otherwise.
GetCollection(db, ok) ==
    IF db.uid # 0 /\ ok THEN Returned(db.uid) ELSE Raised

\* client.create_collection(name=...): a new, empty collection, or a raise
\* when a collection of the name exists.  n counts the collections created.
CreateCollection(db, n) ==
    IF db.uid = 0
    THEN [raised |-> FALSE, database |-> [uid |-> n + 1, count |-> 0],
          created |-> n + 1, value |-> n + 1]
    ELSE [raised |-> TRUE, database |-> db, created |-> n, value |-> None]

\* A call through a handle reaches the collection the handle was made for,
\* while that collection exists.
Reaches(h, db) == h # None /\ h = db.uid

\* The ingestion script is between the delete_collection of reset and the
\* assignment of the collection got or created after it.
InReset == {"deleted", "recreating"}

StoreInit ==
    /\ database \in {Absent, [uid |-> 1, count |-> Len(Corpus)]}
    /\ created = database.uid
    /\ handle = [p \in Processes |-> None]
    /\ ingest_pc = "idle"
    /\ api_pc = "closed"
    /\ runs = 0
    /\ observed = NoObservation
    /\ llm_provider = "ollama"
    /\ threshold = SIMILARITY_THRESHOLD
    /\ pc = "idle"
    /\ question = Unset
    /\ embedStatus = Unset
    /\ indexStatus = Unset
    /\ results = <<>>
    /\ source_docs = <<>>
    /\ genKind = Unset
    /\ genCalls = 0
    /\ answer = <<>>
    /\ response = NoResponse
    /\ ServiceConstructed

\* setup_vector_database, in a new process: vector_store = get_vector_store(),
\* whose _get_or_create_collection tries get_collection first.
IngestOpen(ok) ==
    /\ ingest_pc \in {"idle", "failed"}
    /\ runs < MaxRuns
    /\ runs' = runs + 1
    /\ LET g == GetCollection(database, ok)
       IN  IF g.raised
           THEN /\ handle' = [handle EXCEPT !["ingest"] = None]
                /\ ingest_pc' = "creating"
           ELSE /\ handle' = [handle EXCEPT !["ingest"] = g.value]
                /\ ingest_pc' = "opened"
    /\ UNCHANGED <<database, created, api_pc, observed, queryVars, svcVars>>

\* The bare except of _get_or_create_collection: create_collection; its raise
\* leaves VectorStore() and the script exits 1.
IngestCreate ==
    /\ ingest_pc = "creating"
    /\ LET c == CreateCollection(database, created)
       IN  /\ database' = c.database
           /\ created' = c.created
           /\ IF c.raised
              THEN /\ ingest_pc' = "failed"
                   /\ UNCHANGED handle
              ELSE /\ ingest_pc' = "opened"
                   /\ handle' = [handle EXCEPT !["ingest"] = c.value]
    /\ UNCHANGED <<api_pc, runs, observed, queryVars, svcVars>>

\* reset, first statement: self.client.delete_collection(name=...), which
\* raises when there is no such collection.
ResetDelete ==
    /\ ingest_pc = "opened"
    /\ IF database.uid # 0
       THEN /\ database' = Absent
            /\ ingest_pc' = "deleted"
       ELSE /\ ingest_pc' = "failed"
            /\ UNCHANGED database
    /\ UNCHANGED <<created, handle, api_pc, runs, observed, queryVars, svcVars>>

\* reset, second statement: self.collection = self._get_or_create_collection(),
\* its get_collection.
ResetGet(ok) ==
    /\ ingest_pc = "deleted"
    /\ LET g == GetCollection(database, ok)
       IN  IF g.raised
           THEN /\ ingest_pc' = "recreating"
                /\ UNCHANGED handle
           ELSE /\ ingest_pc' = "reset"
                /\ handle' = [handle EXCEPT !["ingest"] = g.value]
    /\ UNCHANGED <<database, created, api_pc, runs, observed, queryVars,
                   svcVars>>

\* reset, second statement, the except: create_collection; its raise leaves
\* reset with self.collection still the deleted collection, and the script
\* exits 1.
ResetCreate ==
    /\ ingest_pc = "recreating"
    /\ LET c == CreateCollection(database, created)
       IN  /\ database' = c.database
           /\ created' = c.created
           /\ IF c.raised
              THEN /\ ingest_pc' = "failed"
                   /\ UNCHANGED handle
              ELSE /\ ingest_pc' = "reset"
                   /\ handle' = [handle EXCEPT !["ingest"] = c.value]
    /\ UNCHANGED <<api_pc, runs, observed, queryVars, svcVars>>

\* vector_store.add_documents(...): self.collection.add of n chunks; it
\* re-raises when the add fails.
AddDocuments(n) ==
    /\ ingest_pc = "reset"
    /\ IF Reaches(handle["ingest"], database)
       THEN /\ database' = [database EXCEPT !.count = database.count + n]
            /\ ingest_pc' = "idle"
       ELSE /\ ingest_pc' = "failed"
            /\ UNCHANGED database
    /\ UNCHANGED <<created, handle, api_pc, runs, observed, queryVars, svcVars>>

\* The API process constructs its VectorStore: get_vector_store() of its first
\* request, or of the first one after a restart or a failed construction;
\* _get_or_create_collection tries get_collection first.
ApiOpen(ok) ==
    /\ api_pc = "closed"
    /\ LET g == GetCollection(database, ok)
       IN  IF g.raised
           THEN /\ api_pc' = "creating"
                /\ UNCHANGED handle
           ELSE /\ api_pc' = "open"
                /\ handle' = [handle EXCEPT !["api"] = g.value]
    /\ UNCHANGED <<database, created, ingest_pc, runs, observed, queryVars,
                   svcVars>>

\* The except of the API process's _get_or_create_collection:
\* create_collection; its raise leaves VectorStore(), the global stays None
\* and the request fails.
ApiCreate ==
    /\ api_pc = "creating"
    /\ LET c == CreateCollection(database, created)
       IN  /\ database' = c.database
           /\ created' = c.created
           /\ IF c.raised
              THEN /\ api_pc' = "closed"
                   /\ UNCHANGED handle
              ELSE /\ api_pc' = "open"
                   /\ handle' = [handle EXCEPT !["api"] = c.value]
    /\ UNCHANGED <<ingest_pc, runs, observed, queryVars, svcVars>>

\* VectorStore.query or get_count in the API process: self.collection.query /
\* self.collection.count through the handle it holds.
ApiCall(op) ==
    /\ api_pc = "open"
    /\ observed' = [made |-> TRUE, op |-> op,
                    ok |-> Reaches(handle["api"], database),
                    during |-> ingest_pc,
                    count |-> IF Reaches(handle["api"], database)
                              THEN database.count ELSE 0]
    /\ UNCHANGED <<database, created, handle, ingest_pc, api_pc, runs,
                   queryVars, svcVars>>

\* The API process is restarted and its globals are None again.
ApiRestart ==
    /\ api_pc = "open"
    /\ api_pc' = "closed"
    /\ handle' = [handle EXCEPT !["api"] = None]
    /\ UNCHANGED <<database, created, ingest_pc, runs, observed, queryVars,
                   svcVars>>

StoreNext ==
    \/ \E ok \in BOOLEAN : IngestOpen(ok)
    \/ IngestCreate
    \/ ResetDelete
    \/ \E ok \in BOOLEAN : ResetGet(ok)
    \/ ResetCreate
    \/ \E n \in ChunkCounts : AddDocuments(n)
    \/ \E ok \in BOOLEAN : ApiOpen(ok)
    \/ ApiCreate
    \/ \E op \in {"query", "count"} : ApiCall(op)
    \/ ApiRestart

StoreSpec == StoreInit /\ [][StoreNext]_vars

----------------------------------------------------------------------------
(* Properties *)

AfterRetrieval == {"Retrieved", "NoContext", "Generating", "Generated",
                   "Completed"}

Abs(x) == IF x < 0 THEN 0 - x ELSE x

ScoreTotal(docs) ==
    LET RECURSIVE Upto(_)
        Upto(k) == IF k = 0 THEN 0 ELSE docs[k].similarity_score + Upto(k - 1)
    IN  Upto(Len(docs))

\* c is a multiple of 0.001 nearest to the mean of the scores of docs.
IsRoundedMean(c, docs) ==
    2 * Abs(c * Len(docs) - ScoreTotal(docs)) <= Len(docs)

Contents(docs) == {docs[i].content : i \in DOMAIN docs}

\* The provider call of this request failed: a network error, a timeout, a
\* non-success status, a malformed body or a body without the answer field.
ProviderFailed ==
    /\ genCalls > 0
    /\ genKind \in FailureKinds

\* The matches of res at or above the threshold, in the order of res.
AtOrAbove(res, thr) ==
    SelectSeq(res, LAMBDA m : Scale - m.distance >= thr)

\* The score of a match: 1 - distance to the nearest 0.001.
ScoreOf(m) ==
    LET similarity == Scale - m.distance
        step == Scale \div Milli
        below == similarity \div step
    IN  CHOOSE k \in below..(below + 1) :
            2 * Abs(k * step - similarity) < step

\* A match SourceDocument accepts.
Acceptable(m) ==
    /\ m.metadata = "mapping"
    /\ ScoreOf(m) \in 0..Milli

\* All matches at or above the threshold when SourceDocument accepts each of
\* them, none otherwise.
KeptOrNone(res, thr) ==
    LET kept == AtOrAbove(res, thr)
    IN  IF \A i \in DOMAIN kept : Acceptable(kept[i])
        THEN [i \in DOMAIN kept |->
                 [content |-> kept[i].content, metadata |-> kept[i].metadata,
                  similarity_score |-> ScoreOf(kept[i])]]
        ELSE <<>>

\* C1: in every response returned by query, confidence is the mean of the
\* similarity scores of the returned sources rounded to 3 decimals when there
\* are sources, and 0.0 when there are none, whether generation succeeded or
\* failed.
C1_ConfidenceIsRoundedMean ==
    response.returned =>
        IF response.sources = <<>>
        THEN response.confidence = 0
        ELSE IsRoundedMean(response.confidence, response.sources)

\* A response after a failed generation whose sources have a mean that is no
\* multiple of 0.001.
C1_Witness ==
    /\ response.returned
    /\ genCalls > 0
    /\ genKind = "network"
    /\ Len(response.sources) = 3
    /\ ScoreTotal(response.sources) % 3 = 2

\* C2: when retrieval yields no source, no provider call is made in that
\* request and the response carries the fixed not-enough-information message,
\* confidence 0.0 and no sources.
C2_NoContextNoGeneration ==
    (pc \in AfterRetrieval /\ source_docs = <<>>) =>
        /\ genCalls = 0
        /\ pc \notin {"Generating", "Generated"}
        /\ pc = "Completed" =>
              /\ response.answer = NoContextMessage
              /\ response.confidence = 0
              /\ response.sources = <<>>

\* A response to a request whose matches were all below the threshold.
C2_Witness ==
    /\ pc = "Completed"
    /\ indexStatus = "ok"
    /\ Len(results) >= 1
    /\ \A i \in DOMAIN results : Scale - results[i].distance < threshold
    /\ response.sources = <<>>

\* C3 as stated: when the provider call fails in a request that retrieved at
\* least one source, query returns the apology text, which carries the contact
\* phone, with the retrieved sources and the confidence those sources
\* determine.
C3_GenerationFailureKeepsRetrieval ==
    (response.returned /\ ProviderFailed) =>
        /\ response.answer = ApologyMessage
        /\ \E i \in DOMAIN response.answer : response.answer[i] = CLINIC_PHONE
        /\ response.sources # <<>>
        /\ response.sources = KeptOrNone(results, threshold)
        /\ IsRoundedMean(response.confidence, response.sources)

\* C4: the sources of a response are ordered by similarity score,
\* non-increasing, the index returning its matches closest first.
C4_SourcesSortedDescending ==
    response.returned =>
        \A i \in 1..(Len(response.sources) - 1) :
            response.sources[i].similarity_score
                >= response.sources[i + 1].similarity_score

\* A response with sources of different scores, a match having been dropped.
C4_Witness ==
    /\ response.returned
    /\ Len(response.sources) = 2
    /\ Len(results) = 3
    /\ response.sources[1].similarity_score
           > response.sources[2].similarity_score

\* C5 as stated: a returned match below the threshold never appears in the
\* sources, and every returned match at or above the threshold is kept.
C5_Original ==
    (indexStatus = "ok" /\ pc \in AfterRetrieval) =>
        \A i \in DOMAIN results :
            IF Scale - results[i].distance < threshold
            THEN results[i].content \notin Contents(source_docs)
            ELSE results[i].content \in Contents(source_docs)

\* C5 amended: a returned match below the threshold never appears in the
\* sources; the matches at or above the threshold are all kept, in the order
\* of the index, when SourceDocument accepts each of them (metadata a mapping,
\* rounded score in [0, 1]), and none is kept when it refuses one.
C5_ThresholdFilter ==
    (indexStatus = "ok" /\ pc \in AfterRetrieval) =>
        /\ \A i \in DOMAIN results :
              Scale - results[i].distance < threshold
                  => results[i].content \notin Contents(source_docs)
        /\ source_docs = KeptOrNone(results, threshold)

\* The closest match is below the threshold by less than the rounding step,
\* and nothing is kept.
C5_Witness ==
    /\ pc \in AfterRetrieval
    /\ indexStatus = "ok"
    /\ Len(results) >= 1
    /\ Scale - results[1].distance < threshold
    /\ 2 * (threshold - (Scale - results[1].distance)) < Scale \div Milli
    /\ source_docs = <<>>

\* C6: in every response each source's similarity score and the confidence
\* lie in [0, 1].
C6_ScoresInUnitInterval ==
    response.returned =>
        /\ \A i \in DOMAIN response.sources :
              /\ 0 <= response.sources[i].similarity_score
              /\ response.sources[i].similarity_score <= Milli
        /\ 0 <= response.confidence
        /\ response.confidence <= Milli

\* A response to a request in which a match of negative similarity passed a
\* negative threshold.
C6_Witness ==
    /\ response.returned
    /\ \E i \in DOMAIN results :
          /\ Scale - results[i].distance < 0
          /\ Scale - results[i].distance >= threshold

\* C7: query never raises to its caller and no stage of it is left without a
\* next step; its response echoes the question and carries an answer.
C7_QueryNeverRaises ==
    /\ pc # "Raised"
    /\ pc # "Completed" => ENABLED Next
    /\ pc = "Completed" =>
          /\ response.returned
          /\ response.question = question
          /\ DOMAIN response.answer = 1..Len(response.answer)

\* A response to the empty question after an embedding failure.
C7_Witness ==
    /\ pc = "Completed"
    /\ question = ""
    /\ embedStatus = "raise"

\* C8: when VectorStore.query raises, retrieve_documents returns the empty
\* list and does not raise, and the request ends with the
\* not-enough-information message.
C8_IndexFailureIsEmptyResult ==
    indexStatus = "raise" =>
        /\ pc \in AfterRetrieval
        /\ source_docs = <<>>
        /\ pc = "Completed" => response.answer = NoContextMessage

\* A response to a request whose index query raised.
C8_Witness ==
    /\ pc = "Completed"
    /\ indexStatus = "raise"

\* C9 as stated: when the embedding of the question fails,
\* retrieve_documents raises.
C9_EmbeddingFailurePropagates ==
    embedStatus = "raise" => pc = "Raised"

\* C10 as stated: whenever the provider call fails, generate_answer returns
\* the apology message and raises nothing.
C10_EveryFailureGivesApology ==
    (genCalls > 0 /\ genKind \in FailureKinds) =>
        /\ pc \in {"Generated", "Completed"}
        /\ answer = ApologyMessage

\* The state of the orchestrator at a position of query: generate_answer is
\* in Generating until it has returned.
OrchestratorState(p) == IF p = "Generated" THEN "Generating" ELSE p

\* C13 as stated: a request moves only from Received to Embedded, from there
\* to Retrieved, from there to NoContext when there is no source and to
\* Generating when there is one, and from either to Completed.
C13_StatesInOrder ==
    [][LET from == OrchestratorState(pc)
           to == OrchestratorState(pc')
       IN  \/ to = from
           \/ to = "Received" /\ from \in {"idle", "Completed", "Raised"}
           \/ from = "Received" /\ to = "Embedded"
           \/ from = "Embedded" /\ to = "Retrieved"
           \/ from = "Retrieved" /\ to = "NoContext" /\ source_docs = <<>>
           \/ from = "Retrieved" /\ to = "Generating" /\ source_docs # <<>>
           \/ from \in {"NoContext", "Generating"} /\ to = "Completed"]_vars

\* C16: when SourceDocument refuses a match at or above the threshold,
\* retrieve_documents returns the empty list, also when it had accepted
\* earlier matches of the same call; it never returns a part of the matches
\* at or above the threshold.
C16_RetrievalAllOrNothing ==
    (indexStatus = "ok" /\ pc # "Embedded") =>
        LET kept == AtOrAbove(results, threshold)
        IN  /\ pc \in AfterRetrieval
            /\ Len(source_docs) \in {0, Len(kept)}
            /\ (\E i \in DOMAIN kept : ~Acceptable(kept[i]))
                  => source_docs = <<>>

\* The closest match was accepted, a later one was refused, and nothing is
\* returned.
C16_Witness ==
    /\ indexStatus = "ok"
    /\ pc \in AfterRetrieval
    /\ Len(results) >= 2
    /\ Scale - results[1].distance >= threshold
    /\ Acceptable(results[1])
    /\ \E i \in 2..Len(results) :
          /\ Scale - results[i].distance >= threshold
          /\ ~Acceptable(results[i])
    /\ source_docs = <<>>

\* The provider configuration is invalid: an unrecognised provider, or no key
\* for a provider that needs one.
ConfigInvalid(cfg) == cfg.provider \notin Providers \/ CredentialsMissing(cfg)

\* A question is in the query pipeline, or has been answered by it.
InPipeline == {"Received", "Embedded"} \cup AfterRetrieval

\* C11 as stated: with an unrecognised provider or without the credentials
\* the provider needs, the process refuses to start, so no question ever
\* enters the pipeline.
C11_InvalidConfigNeverServes ==
    ConfigInvalid(config) => pc \notin InPipeline

\* C12: every /health request returns a response and raises nothing, with
\* status "healthy" exactly when count() was reached and succeeded, and
\* "unhealthy" otherwise.
C12_HealthReflectsCount ==
    health.called =>
        /\ ~health.raised
        /\ health.status \in {"healthy", "unhealthy"}
        /\ health.status = "healthy" <=> health.counted

\* A /health request that could not obtain the vector store.
C12_Witness ==
    /\ health.called
    /\ singleton["vector_store"] = None
    /\ health.status = "unhealthy"

\* C14 as stated: at most one instance of each singleton is ever
\* constructed, and none is constructed while a request is being served.
C14_SingletonsBuiltOnceAtStartup ==
    [][/\ \A c \in Classes : built'[c] <= 1
       /\ pc \notin Quiescent => built' = built]_vars

\* C15 as stated: no query or count of another caller meets the collection
\* deleted and not yet recreated, and when reset has returned the collection
\* is empty and the store's handle refers to it.
C15_ResetIsAtomic ==
    /\ observed.made => ~(observed.during \in InReset /\ ~observed.ok)
    /\ ingest_pc = "reset" =>
          /\ database.uid # 0
          /\ database.count = 0
          /\ handle["ingest"] = database.uid

====
